---- MODULE Spec2Model ----
(***************************************************************************)
(* Model of the ndt7 minimal client (main.go): main's sequence of          *)
(* sub-tests, the three test loops, the ticker they poll and the records   *)
(* they print.                                                             *)
(*                                                                         *)
(* Time.  Go's time.Time / time.Duration count nanoseconds in 64 bits.     *)
(* TLC's integers have 32 bits, so a time value t is held as the record    *)
(* [us |-> t \div 1000, ns |-> t % 1000].  Every clock reading of the code *)
(* is used relative to the `start` a test captures at entry, so the clock  *)
(* `now` is kept as time.Since(start) of the running sub-test.             *)
(*                                                                         *)
(* Standard output is append-only and never read back.  The model keeps    *)
(* the last chunk written (lastOut), the last client AppInfo record of the *)
(* running sub-test (lastAppInfo) with the instant it was printed, and     *)
(* counters of what was printed.                                           *)
(***************************************************************************)
EXTENDS Integers, Sequences, FiniteSets, TLC

\* ------------------------------------------------------------------ bounds
\* Successful writes one upload run makes before the connection fails.
MaxUploadWrites == 100
\* Messages one download run receives before the connection fails.
MaxDownloadMsgs == 4
\* Requests one round-trip run receives before the connection fails.
MaxRoundTrips == 2
\* I/O calls at the start of one sub-test that may take longer than the
\* shortest duration; the calls after them take the shortest.
MaxSlowIO == 2

\* --------------------------------------------------------------- constants
minMessageSize == 1024
maxScaledMessageSize == 1048576
maxMessageSize == 16777216
fractionForScaling == 16
roundTripMaxMessageSize == 131072
\* time.Microsecond, in nanoseconds
Microsecond == 1000

T(u, n) == [us |-> u, ns |-> n]
\* 10 * time.Second
maxRuntime == T(10000000, 0)
\* 250 * time.Millisecond
measureInterval == T(250000, 0)
\* 3 * time.Second
roundTripRuntime == T(3000000, 0)

\* ---------------------------------------------------------- time values
Zero == T(0, 0)

\* t.Add(d)
Add(t, d) ==
    LET n == t.ns + d.ns
    IN  T(t.us + d.us + (n \div Microsecond), n % Microsecond)

\* t.Before(u)
Before(t, u) == t.us < u.us \/ (t.us = u.us /\ t.ns < u.ns)

\* t.Sub(u), for u not after t
Sub(t, u) ==
    IF t.ns >= u.ns THEN T(t.us - u.us, t.ns - u.ns)
    ELSE T(t.us - u.us - 1, t.ns + Microsecond - u.ns)

\* d / time.Microsecond: the integer quotient of the nanosecond count
\* 1000 * d.us + d.ns by 1000, which is d.us because 0 <= d.ns < 1000.
DivMicrosecond(d) == d.us

\* int64(d), the nanosecond count that %d prints for a time.Duration
Nanoseconds(d) == (d.us * Microsecond) + d.ns

\* ------------------------------------------------------------ environment
Tests == {"roundtrip", "download", "upload"}

\* The shortest I/O call, and the durations the others are drawn from.
Fast == T(0, 400)
IODurations == {Fast, T(150, 0), T(250000, 0), T(499999, 800)}
\* Time between `start := time.Now()` and the next clock use of the entry code.
SetupDelays == {Zero, T(0, 300)}
\* Time between the receive of a round-trip request and the reply's RT reading.
ProcDurations == {T(0, 200), T(7, 0)}

None == [none |-> TRUE]
NoTime == T(-1, 0)

\* websocket.TextMessage, websocket.BinaryMessage
TextMessage == "text"
BinaryMessage == "binary"

Malformed == [malformed |-> TRUE]
\* Frames the round-trip peer may send: kind, decoded JSON document, size.
RoundTripMessages ==
    { [kind |-> TextMessage, data |-> [ST |-> 100, SRTT |-> 5, RTTVar |-> 2], len |-> 40],
      [kind |-> TextMessage, data |-> [ST |-> 400000, SRTT |-> 9, RTTVar |-> 1], len |-> 44],
      [kind |-> TextMessage, data |-> [SRTT |-> 5], len |-> 10],
      [kind |-> TextMessage, data |-> Malformed, len |-> 3],
      [kind |-> BinaryMessage, data |-> [ST |-> 100, SRTT |-> 5, RTTVar |-> 2], len |-> 40],
      [kind |-> TextMessage, data |-> [ST |-> 100, SRTT |-> 5, RTTVar |-> 2], len |-> roundTripMaxMessageSize + 1] }

\* Frames the download peer may send: kind and payload length.
DownloadMessages ==
    { [kind |-> k, len |-> n] : k \in {TextMessage, BinaryMessage},
                                n \in {0, 2048, maxMessageSize + 1} }

\* ------------------------------------------------------------------ state
VARIABLES
    pc,            \* where main is: locate, dial, enter, recv, send, loop, ret, done, exit
    test,          \* the sub-test main is at
    flags,         \* the sub-tests whose URL flag is set
    err,           \* main's err
    exitCode,      \* the process's exit status once it has ended
    now,           \* time.Since(start) of the running sub-test
    readDeadline,  \* the connection's read deadline
    writeDeadline, \* the connection's write deadline
    total,         \* the running byte counter
    size,          \* uploadTest's size (the prepared message's length)
    ticker,        \* the time.Ticker of the running test
    iters,         \* messages the running loop has received or written
    slowLeft,      \* I/O calls of this sub-test that may still be slow
    info,          \* roundTripTest's info (the decoded request and its receive time)
    reply,         \* roundTripTest's reply
    lastReply,     \* the last reply conn.WriteJSON has written
    nReplies,      \* replies written in this sub-test
    nRecords,      \* round-trip records printed in this sub-test
    lastOut,       \* the last chunk written to standard output
    lastAppInfo,   \* the last chunk emitAppInfo printed in this sub-test
    emitAt,        \* the instant emitAppInfo printed it
    nAppInfo,      \* chunks emitAppInfo printed in this sub-test
    nFailure,      \* Failure records printed, by test name
    dialErr,       \* the sub-test whose dial failed
    ctxErr,        \* ctx.Err() # nil: the context of the run is cancelled
    frame,         \* the frame conn.NextReader delivered last in this sub-test
    rx,            \* payload bytes the peer delivered in this sub-test, by kind
    reported,      \* what emitAppInfo's records of this sub-test add up to
    trace          \* main's dials and the returns of the tests, in order

vars == << pc, test, flags, err, exitCode, now, readDeadline, writeDeadline,
           total, size, ticker, iters, slowLeft, info, reply, lastReply,
           nReplies, nRecords, lastOut, lastAppInfo, emitAt, nAppInfo,
           nFailure, dialErr, ctxErr, frame, rx, reported, trace >>

io == << now, slowLeft >>
conn == << readDeadline, writeDeadline >>
upload == << total, size, ticker >>
roundtrip == << info, reply, lastReply, nReplies, nRecords >>
sampled == << lastAppInfo, emitAt, nAppInfo, reported >>
mainVars == << test, flags, exitCode, dialErr, trace >>
wire == << frame, rx >>

\* ------------------------------------------------------------------ ticker
\* time.NewTicker(measureInterval) at instant t: the channel C is empty.
NewTicker(t) == [start |-> t, C |-> 0]
NoTicker == [start |-> NoTime, C |-> 0]

\* Ticks the ticker has fired by instant t: one every measureInterval.
ticksBy(tk, t) ==
    IF Before(t, tk.start) THEN 0
    ELSE Sub(t, tk.start).us \div measureInterval.us

tickerSend_queue(c, n) == c + n

\* The ticker's sends on C: the channel holds one tick, a send on a full
\* channel is dropped.
tickerSend(c, n) == IF c + n >= 1 THEN 1 ELSE 0

\* The ticker between instants from and to.
tickerRun(tk, from, to) ==
    [tk EXCEPT !.C = tickerSend(tk.C, ticksBy(tk, to) - ticksBy(tk, from))]

\* ------------------------------------------------------------ blocking I/O
\* The ways one blocking call on the connection, started at instant t under
\* deadline dl, can end: done after a duration d that ends before dl, failed
\* by the peer or the network after d, or failed at dl once dl has passed.
Completions(t, dl, slow, mayEnd) ==
    LET D == { d \in IODurations :
                 (d = Fast \/ slow > 0) /\ Before(Add(t, d), dl) }
        R == IF mayEnd THEN {"ok", "closed"} ELSE {"closed"}
    IN  { [res |-> r, at |-> Add(t, d),
           slow |-> IF slow > 0 THEN slow - 1 ELSE 0] : r \in R, d \in D }
        \cup
        { [res |-> "timeout", at |-> IF Before(t, dl) THEN dl ELSE t,
           slow |-> slow] }

\* --------------------------------------------------------- standard output
\* emitAppInfo's Printf
fmtAppInfo(n, elapsed, testname) ==
    [text |-> [AppInfo |-> [NumBytes |-> n, ElapsedTime |-> elapsed],
               Test |-> testname],
     newlines |-> 2]

\* roundTripRequest.String and the Printf of roundTripTest
fmtRoundTrip(rrr, elapsed) ==
    [text |-> [AppInfo |-> [SRTT |-> rrr.SRTT, RTTVar |-> rrr.RTTVar,
                            ElapsedTime |-> elapsed],
               Test |-> "roundtrip"],
     newlines |-> 2]

\* warnx's Printf
fmtFailure(e, testname) ==
    [text |-> [Failure |-> e, Test |-> testname], newlines |-> 2]

\* downloadTest's Printf of a text message
fmtText(len) ==
    [text |-> [Server |-> len], newlines |-> 1]

\* Nothing received, nothing reported.
NoBytes == [text |-> 0, binary |-> 0, msgs |-> 0]
NoReport == [sum |-> 0, at |-> NoBytes]

\* -------------------------------------------------------------------- main
Init ==
    /\ pc = "locate"
    /\ test = "roundtrip"
    /\ flags \in SUBSET Tests
    /\ err = "nil"
    /\ exitCode = -1
    /\ now = Zero
    /\ readDeadline = NoTime
    /\ writeDeadline = NoTime
    /\ total = 0
    /\ size = 0
    /\ ticker = NoTicker
    /\ iters = 0
    /\ slowLeft = MaxSlowIO
    /\ info = None
    /\ reply = None
    /\ lastReply = None
    /\ nReplies = 0
    /\ nRecords = 0
    /\ lastOut = None
    /\ lastAppInfo = None
    /\ emitAt = NoTime
    /\ nAppInfo = 0
    /\ nFailure = [t \in Tests \cup {"locate"} |-> 0]
    /\ dialErr = "none"
    /\ ctxErr = FALSE
    /\ frame = None
    /\ rx = NoBytes
    /\ reported = NoReport
    /\ trace = << >>

\* warnx(err, testname)
warnx(e, testname) ==
    /\ lastOut' = fmtFailure(e, testname)
    /\ nFailure' = [nFailure EXCEPT ![testname] = @ + 1]

errx_returns(exitcode, e, testname) ==
    /\ warnx(e, testname)
    /\ exitCode' = exitCode
    /\ pc' = "enter"

\* errx(exitcode, err, testname)
errx(exitcode, e, testname) ==
    /\ warnx(e, testname)
    /\ exitCode' = exitcode
    /\ pc' = "exit"

Advance_swapped ==
    /\ test' = CASE test = "roundtrip" -> "upload"
                 [] test = "upload" -> "download"
                 [] OTHER -> test
    /\ pc' = IF test = "download" THEN "done" ELSE "dial"
    /\ exitCode' = IF test = "download" THEN 0 ELSE exitCode

\* main goes on to the next `if *flag != ""` block, or returns.
Advance ==
    /\ test' = CASE test = "roundtrip" -> "download"
                 [] test = "download" -> "upload"
                 [] OTHER -> test
    /\ pc' = IF test = "upload" THEN "done" ELSE "dial"
    /\ exitCode' = IF test = "upload" THEN 0 ELSE exitCode

\* locate(ctx) and main's check of its result
Locate ==
    /\ pc = "locate"
    /\ IF flags # {}
       THEN /\ pc' = "dial"
            /\ UNCHANGED << flags, exitCode, lastOut, nFailure >>
       ELSE \/ /\ errx(1, "locate error", "locate")
               /\ UNCHANGED flags
            \/ \E urls \in SUBSET {"download", "upload"} :
                 /\ flags' = urls
                 /\ pc' = "dial"
                 /\ UNCHANGED << exitCode, lastOut, nFailure >>
    /\ UNCHANGED << test, err, dialErr, io, conn, upload, iters, roundtrip, sampled,
                    ctxErr, wire, trace >>

\* One `if *flag != ""` block of main up to the call of the test: the flag's
\* check, dialer, errx when it fails.
Dial ==
    /\ pc = "dial"
    /\ \/ /\ test \notin flags
          /\ Advance
          /\ UNCHANGED << err, lastOut, nFailure, dialErr, trace >>
       \/ /\ test \in flags
          /\ ~ctxErr
          /\ err' = "nil"
          /\ pc' = "enter"
          /\ trace' = Append(trace, << "dial", test >>)
          /\ UNCHANGED << test, exitCode, lastOut, nFailure, dialErr >>
       \/ /\ test \in flags
          /\ err' = "dial error"
          /\ dialErr' = test
          /\ errx(1, "dial error", test)
          /\ trace' = Append(trace, << "dialfail", test >>)
          /\ UNCHANGED test
    /\ UNCHANGED << flags, io, conn, upload, iters, roundtrip, sampled, ctxErr, wire >>

AfterTest_errx ==
    /\ pc = "ret"
    /\ err # "nil"
    /\ errx(1, err, test)
    /\ trace' = Append(trace, << "ret", test >>)
    /\ UNCHANGED << test, flags, err, dialErr, io, conn, upload, iters, roundtrip, sampled,
                    ctxErr, wire >>

\* The rest of the block: warnx when the test returned an error.
AfterTest ==
    /\ pc = "ret"
    /\ IF err # "nil" THEN warnx(err, test) ELSE UNCHANGED << lastOut, nFailure >>
    /\ Advance
    /\ trace' = Append(trace, << "ret", test >>)
    /\ UNCHANGED << flags, err, dialErr, io, conn, upload, iters, roundtrip, sampled,
                    ctxErr, wire >>

\* ------------------------------------------------------------- round trip
\* `start := time.Now()`: the origin of the clock.
start == Zero

\* json.Unmarshal(data, &info.msg): absent fields keep their zero value.
jsonUnmarshal(data) ==
    IF data = Malformed THEN None
    ELSE [ST |-> IF "ST" \in DOMAIN data THEN data.ST ELSE 0,
          SRTT |-> IF "SRTT" \in DOMAIN data THEN data.SRTT ELSE 0,
          RTTVar |-> IF "RTTVar" \in DOMAIN data THEN data.RTTVar ELSE 0]

roundTripRecv_anyKind(m, recvTime) ==
    IF m.len > roundTripMaxMessageSize
    THEN [err |-> "read limit exceeded", info |-> None]
    ELSE IF jsonUnmarshal(m.data) = None
    THEN [err |-> "invalid character", info |-> None]
    ELSE [err |-> "nil",
          info |-> [msg |-> jsonUnmarshal(m.data), recvTime |-> recvTime]]

\* roundTripRecv once conn.NextReader has delivered frame m at recvTime.
roundTripRecv(m, recvTime) ==
    IF m.len > roundTripMaxMessageSize
    THEN [err |-> "read limit exceeded", info |-> None]
    ELSE IF m.kind # TextMessage
    THEN [err |-> "unexpected message type", info |-> None]
    ELSE IF jsonUnmarshal(m.data) = None
    THEN [err |-> "invalid character", info |-> None]
    ELSE [err |-> "nil",
          info |-> [msg |-> jsonUnmarshal(m.data), recvTime |-> recvTime]]

\* The elapsed time roundTripTest hands to roundTripRequest.String.
recordElapsed(recvTime) == Nanoseconds(Sub(recvTime, start))

newReply_ns(i, t) ==
    [STE |-> i.msg.ST,
     STD |-> Nanoseconds(Sub(i.recvTime, start)) - i.msg.ST,
     RT |-> DivMicrosecond(Sub(t, start))]

\* The roundTripReply built from info at instant t.
newReply(i, t) ==
    [STE |-> i.msg.ST,
     STD |-> DivMicrosecond(Sub(i.recvTime, start)) - i.msg.ST,
     RT |-> DivMicrosecond(Sub(t, start))]

afterRecord_continue == "recv"

\* Where the loop's body goes once the record is printed: on to the reply.
afterRecord == "send"

ioFailed_continue == pc

\* Where a loop goes when a call on the connection, or the decoding of what
\* it delivered, has failed: the test returns the error.
ioFailed == "ret"

\* roundTripTest up to its loop.
RoundTripEnter ==
    /\ pc = "enter"
    /\ test = "roundtrip"
    /\ now' = start
    /\ slowLeft' = MaxSlowIO
    /\ \/ /\ readDeadline' = Add(start, roundTripRuntime)
          /\ writeDeadline' = Add(start, roundTripRuntime)
          /\ pc' = "recv"
          /\ UNCHANGED err
       \/ /\ err' = "set deadline error"
          /\ pc' = "ret"
          /\ UNCHANGED conn
    /\ total' = 0 /\ size' = 0 /\ ticker' = NoTicker /\ iters' = 0
    /\ info' = None /\ reply' = None /\ lastReply' = None
    /\ nReplies' = 0 /\ nRecords' = 0
    /\ lastAppInfo' = None /\ emitAt' = NoTime /\ nAppInfo' = 0
    /\ frame' = None /\ rx' = NoBytes /\ reported' = NoReport
    /\ UNCHANGED << mainVars, ctxErr, lastOut, nFailure >>

\* One iteration of roundTripTest's loop up to the reply's construction:
\* the check of ctx.Err(), roundTripRecv, the record's Printf, the reply.
\* The receive ends in one of the ways C; K is what ctx.Err() # nil can be
\* when it has ended.
RoundTripRecvOn(C, K) ==
    /\ pc = "recv"
    /\ ~ctxErr
    /\ ctxErr' \in K
    /\ \E c \in C :
         /\ slowLeft' = c.slow
         /\ \/ /\ c.res # "ok"
               /\ err' = c.res
               /\ pc' = ioFailed
               /\ now' = c.at
               /\ frame' = None
               /\ UNCHANGED << iters, info, reply, nRecords, lastOut >>
            \/ /\ c.res = "ok"
               /\ \E m \in RoundTripMessages :
                    LET r == roundTripRecv(m, c.at)
                    IN  \/ /\ r.err # "nil"
                           /\ err' = r.err
                           /\ pc' = ioFailed
                           /\ now' = c.at
                           /\ frame' = [kind |-> m.kind, len |-> m.len]
                           /\ UNCHANGED << iters, info, reply, nRecords, lastOut >>
                        \/ /\ r.err = "nil"
                           /\ frame' = [kind |-> m.kind, len |-> m.len]
                           /\ \E p \in ProcDurations :
                                /\ now' = Add(c.at, p)
                                /\ reply' = newReply(r.info, Add(c.at, p))
                           /\ info' = r.info
                           /\ lastOut' = fmtRoundTrip(r.info.msg, recordElapsed(r.info.recvTime))
                           /\ nRecords' = nRecords + 1
                           /\ iters' = iters + 1
                           /\ pc' = afterRecord
                           /\ UNCHANGED err
    /\ UNCHANGED << mainVars, conn, upload, lastReply, nReplies, sampled, nFailure, rx >>

RoundTripRecv ==
    RoundTripRecvOn(Completions(now, readDeadline, slowLeft, iters < MaxRoundTrips),
                    {ctxErr})

\* The rest of the iteration: conn.WriteJSON(reply).
RoundTripSendOn(C, K) ==
    /\ pc = "send"
    /\ ctxErr' \in K
    /\ \E c \in C :
         /\ slowLeft' = c.slow
         /\ now' = c.at
         /\ \/ /\ c.res # "ok"
               /\ err' = c.res
               /\ pc' = ioFailed
               /\ UNCHANGED << lastReply, nReplies >>
            \/ /\ c.res = "ok"
               /\ lastReply' = reply
               /\ nReplies' = nReplies + 1
               /\ pc' = "recv"
               /\ UNCHANGED err
    /\ UNCHANGED << mainVars, conn, upload, iters, info, reply, nRecords,
                    lastOut, sampled, nFailure, wire >>

RoundTripSend ==
    RoundTripSendOn(Completions(now, writeDeadline, slowLeft, TRUE), {ctxErr})

\* --------------------------------------------------------------- sampling
emitAppInfo_sinceLast(t, n, testname) ==
    LET from == IF emitAt = NoTime THEN start ELSE emitAt
    IN  /\ lastOut' = fmtAppInfo(n, DivMicrosecond(Sub(t, from)), testname)
        /\ lastAppInfo' = fmtAppInfo(n, DivMicrosecond(Sub(t, from)), testname)
        /\ emitAt' = t
        /\ nAppInfo' = nAppInfo + 1

emitAppInfo_delta(t, n, testname) ==
    /\ lastOut' = fmtAppInfo(n - reported.sum, DivMicrosecond(Sub(t, start)), testname)
    /\ lastAppInfo' = fmtAppInfo(n - reported.sum, DivMicrosecond(Sub(t, start)), testname)
    /\ emitAt' = t
    /\ nAppInfo' = nAppInfo + 1

\* emitAppInfo(start, total, testname) called at instant t
emitAppInfo(t, n, testname) ==
    /\ lastOut' = fmtAppInfo(n, DivMicrosecond(Sub(t, start)), testname)
    /\ lastAppInfo' = fmtAppInfo(n, DivMicrosecond(Sub(t, start)), testname)
    /\ emitAt' = t
    /\ nAppInfo' = nAppInfo + 1

\* The select on ticker.C with its default case, at instant t with the
\* ticker in state tk: a tick in the channel is taken and a record printed.
Sample(tk, t, n, testname) ==
    IF tk.C > 0
    THEN /\ ticker' = [tk EXCEPT !.C = tk.C - 1]
         /\ emitAppInfo(t, n, testname)
         /\ reported' = [sum |-> reported.sum + lastAppInfo'.text.AppInfo.NumBytes,
                         at |-> rx']
    ELSE /\ ticker' = tk
         /\ UNCHANGED << lastOut, sampled >>

\* --------------------------------------------------------------- download
\* downloadTest up to its loop.
DownloadEnter ==
    /\ pc = "enter"
    /\ test = "download"
    /\ slowLeft' = MaxSlowIO
    /\ \/ /\ readDeadline' = Add(start, maxRuntime)
          /\ \E d \in SetupDelays :
               /\ now' = Add(start, d)
               /\ ticker' = NewTicker(Add(start, d))
          /\ pc' = "loop"
          /\ UNCHANGED err
       \/ /\ err' = "set deadline error"
          /\ pc' = "ret"
          /\ now' = start
          /\ ticker' = NoTicker
          /\ readDeadline' = NoTime
    /\ writeDeadline' = NoTime
    /\ total' = 0 /\ size' = 0 /\ iters' = 0
    /\ info' = None /\ reply' = None /\ lastReply' = None
    /\ nReplies' = 0 /\ nRecords' = 0
    /\ lastAppInfo' = None /\ emitAt' = NoTime /\ nAppInfo' = 0
    /\ frame' = None /\ rx' = NoBytes /\ reported' = NoReport
    /\ UNCHANGED << mainVars, ctxErr, lastOut, nFailure >>

countText_skip(tot, n) == tot

\* `total += int64(len(data))` for a text message of n bytes
countText(tot, n) == tot + n

\* One iteration of downloadTest's loop from the check of ctx.Err(), its
\* conn.NextReader ending in one of the ways C with ctx.Err() # nil in K.
DownloadStepOn(C, K) ==
    /\ pc = "loop"
    /\ test = "download"
    /\ ~ctxErr
    /\ ctxErr' \in K
    /\ UNCHANGED << mainVars, conn, size, roundtrip, nFailure >>
    /\ \E c \in C :
         /\ slowLeft' = c.slow
         /\ now' = c.at
         /\ \/ /\ c.res # "ok"
               /\ err' = c.res
               /\ pc' = ioFailed
               /\ ticker' = tickerRun(ticker, now, c.at)
               /\ frame' = None
               /\ UNCHANGED << total, iters, lastOut, sampled, rx >>
            \/ /\ c.res = "ok"
               /\ \E m \in DownloadMessages :
                    \/ /\ m.len > maxMessageSize
                       /\ err' = "read limit exceeded"
                       /\ pc' = ioFailed
                       /\ ticker' = tickerRun(ticker, now, c.at)
                       /\ frame' = m
                       /\ UNCHANGED << total, iters, lastOut, sampled, rx >>
                    \/ /\ m.len <= maxMessageSize
                       /\ m.kind = TextMessage
                       /\ frame' = m
                       /\ rx' = [rx EXCEPT !.text = @ + m.len, !.msgs = @ + 1]
                       /\ total' = countText(total, m.len)
                       /\ lastOut' = fmtText(m.len)
                       /\ ticker' = tickerRun(ticker, now, c.at)
                       /\ iters' = iters + 1
                       /\ UNCHANGED << pc, err, sampled >>
                    \/ /\ m.len <= maxMessageSize
                       /\ m.kind # TextMessage
                       /\ frame' = m
                       /\ rx' = [rx EXCEPT !.binary = @ + m.len, !.msgs = @ + 1]
                       /\ total' = total + m.len
                       /\ Sample(tickerRun(ticker, now, c.at), c.at,
                                 total + m.len, "download")
                       /\ iters' = iters + 1
                       /\ UNCHANGED << pc, err >>

DownloadStep ==
    DownloadStepOn(Completions(now, readDeadline, slowLeft, iters < MaxDownloadMsgs),
                   {ctxErr})

\* ----------------------------------------------------------------- upload
nextSize_add(sz, tot) ==
    IF sz >= maxScaledMessageSize \/ sz >= (tot \div fractionForScaling)
    THEN sz
    ELSE sz + minMessageSize

nextSize_noFraction(sz, tot) ==
    IF sz >= maxScaledMessageSize THEN sz ELSE sz * 2

nextSize_strict(sz, tot) ==
    IF sz > maxScaledMessageSize \/ sz > (tot \div fractionForScaling)
    THEN sz
    ELSE sz * 2

nextSize_quadruple(sz, tot) ==
    IF sz >= maxScaledMessageSize \/ sz >= (tot \div fractionForScaling)
    THEN sz
    ELSE sz * 4

nextSize_noCap(sz, tot) ==
    IF sz >= (tot \div fractionForScaling) THEN sz ELSE sz * 2

\* The growth policy at the end of an iteration of uploadTest's loop.
nextSize(sz, tot) ==
    IF sz >= maxScaledMessageSize \/ sz >= (tot \div fractionForScaling)
    THEN sz
    ELSE sz * 2

\* uploadTest up to its loop.
UploadEnter ==
    /\ pc = "enter"
    /\ test = "upload"
    /\ slowLeft' = MaxSlowIO
    /\ \E d \in SetupDelays :
         /\ now' = Add(start, d)
         /\ \/ /\ writeDeadline' = Add(Add(start, d), maxRuntime)
               /\ size' = minMessageSize
               /\ ticker' = NewTicker(Add(start, d))
               /\ pc' = "loop"
               /\ UNCHANGED err
            \/ /\ err' = "set deadline error"
               /\ pc' = "ret"
               /\ size' = 0
               /\ ticker' = NoTicker
               /\ writeDeadline' = NoTime
    /\ readDeadline' = NoTime
    /\ total' = 0 /\ iters' = 0
    /\ info' = None /\ reply' = None /\ lastReply' = None
    /\ nReplies' = 0 /\ nRecords' = 0
    /\ lastAppInfo' = None /\ emitAt' = NoTime /\ nAppInfo' = 0
    /\ frame' = None /\ rx' = NoBytes /\ reported' = NoReport
    /\ UNCHANGED << mainVars, ctxErr, lastOut, nFailure >>

\* One iteration of uploadTest's loop from the check of ctx.Err(), its
\* conn.WritePreparedMessage ending in one of the ways C with ctx.Err() # nil
\* in K.
UploadStepOn(C, K) ==
    /\ pc = "loop"
    /\ test = "upload"
    /\ ~ctxErr
    /\ ctxErr' \in K
    /\ UNCHANGED << mainVars, conn, roundtrip, nFailure, wire >>
    /\ \E c \in C :
         /\ slowLeft' = c.slow
         /\ now' = c.at
         /\ \/ /\ c.res # "ok"
               /\ err' = c.res
               /\ pc' = ioFailed
               /\ ticker' = tickerRun(ticker, now, c.at)
               /\ UNCHANGED << total, size, iters, lastOut, sampled >>
            \/ /\ c.res = "ok"
               /\ total' = total + size
               /\ Sample(tickerRun(ticker, now, c.at), c.at, total + size, "upload")
               /\ size' = nextSize(size, total + size)
               /\ iters' = iters + 1
               /\ UNCHANGED << pc, err >>

UploadStep ==
    UploadStepOn(Completions(now, writeDeadline, slowLeft, iters < MaxUploadWrites),
                 {ctxErr})

\* ctx is context.Background(): ctx.Err() is nil throughout, so the three
\* loops end only by returning an error.
Next ==
    \/ Locate
    \/ Dial
    \/ AfterTest
    \/ RoundTripEnter
    \/ RoundTripRecv
    \/ RoundTripSend
    \/ DownloadEnter
    \/ DownloadStep
    \/ UploadEnter
    \/ UploadStep

Spec == Init /\ [][Next]_vars

\* ------------------------------------------------------------ cancellation
\* The runs of the tests under a context that can be cancelled. The
\* cancellation fires between two steps of main, or while a blocking call is
\* in flight: the call is not interrupted, and ctx.Err() is non-nil when it
\* has ended.
Cancel ==
    /\ pc \in {"dial", "enter", "recv", "send", "loop", "ret"}
    /\ ~ctxErr
    /\ ctxErr' = TRUE
    /\ UNCHANGED << pc, err, mainVars, io, conn, upload, iters, roundtrip,
                    lastOut, sampled, nFailure, wire >>

LoopExit_error ==
    /\ pc \in {"recv", "loop"}
    /\ ctxErr
    /\ pc' = "ret"
    /\ err' = "context canceled"
    /\ UNCHANGED << ctxErr, mainVars, io, conn, upload, iters, roundtrip,
                    lastOut, sampled, nFailure, wire >>

\* `for ctx.Err() == nil` finds the context cancelled: the loop ends and the
\* test returns nil.
LoopExit ==
    /\ pc \in {"recv", "loop"}
    /\ ctxErr
    /\ pc' = "ret"
    /\ err' = "nil"
    /\ UNCHANGED << ctxErr, mainVars, io, conn, upload, iters, roundtrip,
                    lastOut, sampled, nFailure, wire >>

RoundTripRecvCancel ==
    RoundTripRecvOn(Completions(now, readDeadline, slowLeft, iters < MaxRoundTrips),
                    {ctxErr, TRUE})

RoundTripSendCancel ==
    RoundTripSendOn(Completions(now, writeDeadline, slowLeft, TRUE), {ctxErr, TRUE})

DownloadStepCancel ==
    DownloadStepOn(Completions(now, readDeadline, slowLeft, iters < MaxDownloadMsgs),
                   {ctxErr, TRUE})

UploadStepCancel ==
    UploadStepOn(Completions(now, writeDeadline, slowLeft, iters < MaxUploadWrites),
                 {ctxErr, TRUE})

NextCancel ==
    \/ Locate
    \/ Dial
    \/ AfterTest
    \/ RoundTripEnter
    \/ RoundTripRecvCancel
    \/ RoundTripSendCancel
    \/ DownloadEnter
    \/ DownloadStepCancel
    \/ UploadEnter
    \/ UploadStepCancel
    \/ Cancel
    \/ LoopExit

SpecCancel == Init /\ [][NextCancel]_vars

\* ------------------------------------------------------------- termination
\* The runs of the tests against a peer that never stops: no bound on the
\* messages of a run, every blocking call may succeed for as long as it ends
\* before its deadline. A call takes a fixed share of the test's runtime, so
\* that a run has finitely many calls before the deadline: a third of
\* roundTripRuntime in the round trip, three tenths of maxRuntime in the
\* download and the upload.
LiveRoundTripCall == T(1000000, 0)
LiveTransferCall == T(3000000, 0)

\* The ways one blocking call that takes d, started at instant t under
\* deadline dl, can end: as in Completions.
LiveCompletions(t, dl, d) ==
    { [res |-> r, at |-> Add(t, e), slow |-> slowLeft] :
          r \in {"ok", "closed"},
          e \in { x \in {d} : Before(Add(t, x), dl) } }
    \cup
    { [res |-> "timeout", at |-> IF Before(t, dl) THEN dl ELSE t,
       slow |-> slowLeft] }

RoundTripRecvLive ==
    RoundTripRecvOn(LiveCompletions(now, readDeadline, LiveRoundTripCall), {ctxErr})

RoundTripSendLive ==
    RoundTripSendOn(LiveCompletions(now, writeDeadline, LiveRoundTripCall), {ctxErr})

DownloadStepLive ==
    DownloadStepOn(LiveCompletions(now, readDeadline, LiveTransferCall), {ctxErr})

UploadStepLive ==
    UploadStepOn(LiveCompletions(now, writeDeadline, LiveTransferCall), {ctxErr})

NextLive ==
    \/ Locate
    \/ Dial
    \/ AfterTest
    \/ RoundTripEnter
    \/ RoundTripRecvLive
    \/ RoundTripSendLive
    \/ DownloadEnter
    \/ DownloadStepLive
    \/ UploadEnter
    \/ UploadStepLive

\* main's goroutine keeps running, and a blocking call returns: at the
\* latest when its deadline has passed.
SpecLive == Init /\ [][NextLive]_vars /\ WF_vars(NextLive)

\* ----------------------------------------------------------------- claims
InUpload == test = "upload" /\ pc = "loop"
InSampledTest == test \in {"download", "upload"} /\ pc = "loop"

\* The sizes minMessageSize * 2^k up to maxMessageSize.
RECURSIVE StepsFrom(_)
StepsFrom(s) == IF s > maxMessageSize THEN {} ELSE {s} \cup StepsFrom(2 * s)
Steps == StepsFrom(minMessageSize)

MaxOf(a, b) == IF a >= b THEN a ELSE b
MinOf(a, b) == IF a <= b THEN a ELSE b

\* x rounded up to the next power-of-two step.
RoundUpStep(x) == CHOOSE s \in Steps : s >= x /\ \A r \in Steps : r >= x => s <= r

\* emitAppInfo has printed a record in this step.
Emitted == nAppInfo' = nAppInfo + 1

\* C1: in every state of uploadTest's loop the prepared message size is
\* minMessageSize times a power of two and at most maxMessageSize, and no
\* step of the loop decreases it.
C1_SizeIsStepAndGrows ==
    [][ /\ InUpload' => (size' \in Steps /\ size' <= maxMessageSize)
        /\ (InUpload /\ InUpload') => size' >= size ]_vars

C1_Witness == InUpload /\ size = maxScaledMessageSize /\ size < total \div fractionForScaling

\* C2: after every write of an upload run the message size is at most
\* max(minMessageSize, min(maxScaledMessageSize, total / 16)) rounded up to
\* the next power-of-two step, total counting the write just made.
C2_SizeWithinFraction ==
    InUpload =>
        size <= RoundUpStep(MaxOf(minMessageSize,
                     MinOf(maxScaledMessageSize, total \div fractionForScaling)))

C2_Witness ==
    /\ InUpload
    /\ size = 2 * minMessageSize
    /\ size > total \div fractionForScaling
    /\ total \div fractionForScaling > minMessageSize

\* C3 as stated: from each client AppInfo record of a sub-test to the next,
\* NumBytes does not decrease and ElapsedTime strictly increases.
C3_ElapsedStrictlyIncreases ==
    [][ (Emitted /\ lastAppInfo # None) =>
          /\ lastAppInfo'.text.AppInfo.NumBytes >= lastAppInfo.text.AppInfo.NumBytes
          /\ lastAppInfo'.text.AppInfo.ElapsedTime > lastAppInfo.text.AppInfo.ElapsedTime
      ]_vars

\* C3 amended: from each client AppInfo record of a sub-test to the next,
\* neither NumBytes nor ElapsedTime decreases.
C3_RecordsNeverDecrease ==
    [][ (Emitted /\ lastAppInfo # None) =>
          /\ lastAppInfo'.text.AppInfo.NumBytes >= lastAppInfo.text.AppInfo.NumBytes
          /\ lastAppInfo'.text.AppInfo.ElapsedTime >= lastAppInfo.text.AppInfo.ElapsedTime
      ]_vars

C3_Witness ==
    /\ InSampledTest
    /\ nAppInfo >= 2
    /\ lastAppInfo.text.AppInfo.ElapsedTime = DivMicrosecond(emitAt)

\* C4: the reply to a request with sender time ST received at elapsed time r
\* microseconds has STE = ST, STD = r - ST and RT the elapsed microseconds at
\* the moment its send starts; the reply written is that reply.
C4_ReplyFields ==
    /\ (test = "roundtrip" /\ pc = "send") =>
          /\ reply.STE = info.msg.ST
          /\ reply.STD = info.recvTime.us - info.msg.ST
          /\ reply.RT = now.us
    /\ (test = "roundtrip" /\ pc = "recv" /\ lastReply # None) =>
          /\ lastReply = reply
          /\ lastReply.STE = info.msg.ST
          /\ lastReply.STD = info.recvTime.us - info.msg.ST

C4_Witness ==
    /\ test = "roundtrip"
    /\ pc = "recv"
    /\ lastReply # None
    /\ info.msg.ST = 100
    /\ info.recvTime = T(150, 0)
    /\ lastReply.STE = 100
    /\ lastReply.STD = 50

\* C5: in roundTripTest one record is printed per request decoded, and the
\* replies written number the requests decoded when a receive is next, one
\* less while the reply of the last request is still to be written.
C5_RecvReplyAlternate ==
    (test = "roundtrip" /\ pc \in {"recv", "send", "ret"}) =>
        /\ nRecords = iters
        /\ nReplies <= iters
        /\ nReplies >= iters - 1
        /\ pc = "recv" => nReplies = iters
        /\ pc = "send" => nReplies = iters - 1

C5_Witness == test = "roundtrip" /\ pc = "recv" /\ iters = 2 /\ nReplies = 2

\* C6: a sub-test that returns an error prints nothing itself; main then
\* prints exactly one Failure record with that sub-test's name and goes on
\* to the next sub-test's block without exiting; no sub-test ever has more
\* than one Failure record.
C6_InTestFailureIsLocal ==
    [][ /\ (pc = "ret" /\ err # "nil") =>
              /\ nFailure' = [nFailure EXCEPT ![test] = 1]
              /\ lastOut' = fmtFailure(err, test)
              /\ exitCode' # 1
              /\ IF test = "upload" THEN pc' = "done"
                 ELSE pc' = "dial" /\ test' # test
        /\ (pc \in {"enter", "recv", "send", "loop"} /\ pc' = "ret") =>
              /\ err' # "nil"
              /\ nFailure' = nFailure
              /\ lastOut' = lastOut
        /\ \A t \in Tests : nFailure'[t] <= 1 ]_vars

C6_Witness ==
    /\ pc = "enter"
    /\ test = "upload"
    /\ nFailure["download"] = 1
    /\ lastOut = fmtFailure("closed", "download")
    /\ iters = 1
    /\ total = 2048

\* C7: once the dial of a sub-test has failed, the process has exited with
\* status 1 and the last thing printed is the Failure record with that
\* sub-test's name, the only one with it; main is still at that sub-test.
C7_DialFailureIsFatal ==
    dialErr # "none" =>
        /\ pc = "exit"
        /\ exitCode = 1
        /\ test = dialErr
        /\ lastOut = fmtFailure("dial error", dialErr)
        /\ nFailure[dialErr] = 1

C7_Witness ==
    /\ dialErr = "download"
    /\ nFailure["roundtrip"] = 1
    /\ pc = "exit"

\* C8: a client AppInfo record is printed only for a tick: the ticker's
\* channel never holds more than one tick, records and the pending tick
\* never outnumber the interval boundaries passed, and between two records
\* of a sub-test an interval boundary passes, however many were missed
\* before the first.
C8_OneRecordPerInterval ==
    [][ /\ InSampledTest' =>
              /\ ticker'.C <= 1
              /\ nAppInfo' + ticker'.C <= ticksBy(ticker', now')
              /\ nAppInfo' <= nAppInfo + 1
        /\ (Emitted /\ nAppInfo >= 1) =>
              ticksBy(ticker', now') > ticksBy(ticker, emitAt) ]_vars

C8_Witness ==
    /\ InSampledTest
    /\ nAppInfo = 1
    /\ ticker.C = 0
    /\ ticksBy(ticker, emitAt) >= 2

\* C9: every chunk written to standard output ends with two newlines.
C9_DoubleNewline == lastOut # None => lastOut.newlines = 2

\* C10: the ElapsedTime of every record printed is the elapsed time since
\* the sub-test's start in whole microseconds; for a round-trip record, the
\* receive time of its request.
C10_ElapsedInMicroseconds ==
    /\ (test = "roundtrip" /\ pc = "send") =>
          lastOut.text.AppInfo.ElapsedTime = info.recvTime.us
    /\ (InSampledTest /\ lastAppInfo # None) =>
          lastAppInfo.text.AppInfo.ElapsedTime = emitAt.us

InDownload == test = "download" /\ pc \in {"loop", "ret"}

\* Bytes received since the last record emitAppInfo printed.
Remainder == (rx.text + rx.binary) - (reported.at.text + reported.at.binary)

\* C11 as stated: in a download of binary messages only, the NumBytes of the
\* records printed so far, added up, plus the bytes received since the last
\* record, is the sum of the sizes received.
C11_SumOfNumBytes ==
    (InDownload /\ rx.text = 0) => reported.sum + Remainder = rx.binary

\* C11 amended: in a download of binary messages only, the NumBytes of the
\* last record printed (0 when none was) plus the bytes received since that
\* record is the sum of the sizes received: each record carries the running
\* total.
C11_LastNumBytesPlusRemainder ==
    (InDownload /\ rx.text = 0) =>
        (IF lastAppInfo = None THEN 0 ELSE lastAppInfo.text.AppInfo.NumBytes)
            + Remainder = rx.binary

C11_Witness ==
    /\ InDownload
    /\ rx.text = 0
    /\ nAppInfo = 2
    /\ lastAppInfo.text.AppInfo.NumBytes = 4096
    /\ rx.binary = 6144

\* A step of downloadTest's loop that received a whole message.
Received == test = "download" /\ pc = "loop" /\ rx'.msgs = rx.msgs + 1

\* C14: in downloadTest total is the sum of the payload lengths of the
\* messages received, text and binary alike, and so is the NumBytes of a
\* record at the time it is printed; a text message is printed as received.
C14_TextBytesCounted ==
    [][ /\ InDownload' =>
              /\ total' = rx'.text + rx'.binary
              /\ lastAppInfo' # None =>
                    lastAppInfo'.text.AppInfo.NumBytes
                        = reported'.at.text + reported'.at.binary
        /\ (Received /\ frame'.kind = TextMessage) =>
              /\ total' = total + frame'.len
              /\ lastOut' = fmtText(frame'.len) ]_vars

C14_Witness ==
    /\ InDownload
    /\ rx.text = 2048
    /\ rx.binary = 2048
    /\ emitAt = now
    /\ lastAppInfo.text.AppInfo.NumBytes = 4096

\* C15: whenever downloadTest has received a message, text or binary, with a
\* tick of the ticker due, it prints a record before the next receive.
C15_SampledAfterEveryMessage ==
    [][ (Received /\ tickerRun(ticker, now, now').C > 0) => Emitted ]_vars

\* C16: a frame that is not a text message ends roundTripTest with an error:
\* no record and no reply for it, no receive after it, and main prints the
\* Failure record of the round trip.
C16_NonTextEndsRoundTrip ==
    [][ /\ (test = "roundtrip" /\ pc = "recv" /\ frame' # None
                /\ frame'.kind # TextMessage) =>
              /\ pc' = "ret"
              /\ err' # "nil"
              /\ nRecords' = nRecords
              /\ nReplies' = nReplies
              /\ lastOut' = lastOut
        /\ (test = "roundtrip" /\ pc = "ret" /\ frame # None
                /\ frame.kind # TextMessage) =>
              /\ lastOut' = fmtFailure(err, "roundtrip")
              /\ nFailure'["roundtrip"] = 1
              /\ pc' = "dial"
              /\ test' = "download" ]_vars

C16_Witness ==
    /\ test = "download"
    /\ pc = "dial"
    /\ frame # None
    /\ frame.kind = BinaryMessage
    /\ nRecords = 1
    /\ nReplies = 1
    /\ lastOut = fmtFailure("unexpected message type", "roundtrip")

\* C17: every sub-test that is entered returns, whatever the peer sends and
\* however long it stalls, given that a blocking call fails once the deadline
\* set at the test's entry has passed.
C17_EverySubTestReturns ==
    \A t \in Tests : (test = t /\ pc = "enter") ~> (test = t /\ pc = "ret")

C17_Witness ==
    /\ test = "download"
    /\ pc = "ret"
    /\ err = "timeout"
    /\ now = readDeadline
    /\ rx.msgs = 3

\* C18: with the context cancelled, a test loop starts no receive and no
\* write: the reply of a round trip whose request was already received is
\* still written, and the loop then ends at its next check and the test
\* returns nil, for which main prints no Failure record.
C18_CancelIsCooperative ==
    [][ ctxErr =>
          /\ pc \in {"recv", "send", "loop"} =>
                /\ iters' = iters
                /\ total' = total
                /\ frame' = frame
                /\ rx' = rx
                /\ nRecords' = nRecords
          /\ pc \in {"recv", "loop"} =>
                /\ pc' = "ret"
                /\ err' = "nil"
                /\ nReplies' = nReplies
                /\ now' = now
          /\ pc = "send" => (pc' \in {"recv", "ret"} /\ nReplies' <= nReplies + 1)
          /\ (pc = "ret" /\ err = "nil") =>
                /\ nFailure' = nFailure
                /\ lastOut' = lastOut ]_vars

C18_Witness ==
    /\ ctxErr
    /\ test = "upload"
    /\ pc = "dial"
    /\ err = "nil"
    /\ rx.msgs = 2
    /\ nFailure["download"] = 0

\* The place of a sub-test in main.
Rank(t) == CASE t = "roundtrip" -> 1 [] t = "download" -> 2 [] t = "upload" -> 3

\* C19: main dials the sub-tests in the order round trip, download, upload,
\* each at most once and only if its URL is set; every dial but the first
\* comes right after the return of the test dialed before it, and a test
\* that returns is the one dialed last, so at most one is running.
C19_StrictlySequential ==
    /\ \A i \in DOMAIN trace :
          /\ trace[i][2] \in flags
          /\ \A j \in 1..(i - 1) :
                /\ Rank(trace[j][2]) <= Rank(trace[i][2])
                /\ trace[j][2] = trace[i][2] =>
                      (j = i - 1 /\ trace[j][1] = "dial" /\ trace[i][1] = "ret")
          /\ (trace[i][1] # "ret" /\ i > 1) => trace[i - 1][1] = "ret"
          /\ trace[i][1] = "ret" =>
                (i > 1 /\ trace[i - 1] = << "dial", trace[i][2] >>)
    /\ pc \in {"enter", "recv", "send", "loop", "ret"} <=>
          (trace # << >> /\ trace[Len(trace)] = << "dial", test >>)

C19_Witness ==
    /\ pc = "done"
    /\ trace = << << "dial", "roundtrip" >>, << "ret", "roundtrip" >>,
                  << "dial", "download" >>, << "ret", "download" >>,
                  << "dial", "upload" >>, << "ret", "upload" >> >>

\* A step of uploadTest's loop in which the write succeeded.
Wrote == InUpload /\ iters' = iters + 1

\* C12: every successful write of uploadTest adds the size written to total
\* and then keeps the size if it is at least maxScaledMessageSize or at least
\* total / 16 (total counting that write), and otherwise doubles it; nothing
\* else in the upload sub-test changes the size once the loop has begun.
C12_GrowthAfterEveryWrite ==
    [][ /\ Wrote =>
              /\ total' = total + size
              /\ size' = IF \/ size >= maxScaledMessageSize
                            \/ size >= total' \div fractionForScaling
                         THEN size
                         ELSE 2 * size
        /\ (test = "upload" /\ pc # "enter" /\ ~Wrote) => size' = size ]_vars

C12_Witness ==
    /\ InUpload
    /\ iters = 16
    /\ size = minMessageSize
    /\ total \div fractionForScaling = size

\* C13 as stated: the size is 2048 from the write after the first write
\* that brings total / 16 to 1024 or more, and 4096 from the write after the
\* first write that brings total / 16 to 2048 or more.
C13_DoublesAtThreshold ==
    [][ Wrote =>
          /\ (/\ total \div fractionForScaling < minMessageSize
              /\ total' \div fractionForScaling >= minMessageSize)
                => size' = 2 * minMessageSize
          /\ (/\ total \div fractionForScaling < 2 * minMessageSize
              /\ total' \div fractionForScaling >= 2 * minMessageSize)
                => size' = 4 * minMessageSize ]_vars

\* C13 amended: the size stays 1024 while total / 16 is at most 1024, is 2048
\* from the write after the first write that brings total / 16 above 1024,
\* and is 4096 from the write after the first write that brings total / 16
\* above 2048.
C13_DoublesPastThreshold ==
    [][ Wrote =>
          /\ total' \div fractionForScaling <= minMessageSize
                => size' = minMessageSize
          /\ (/\ total \div fractionForScaling <= minMessageSize
              /\ total' \div fractionForScaling > minMessageSize)
                => size' = 2 * minMessageSize
          /\ (/\ total \div fractionForScaling <= 2 * minMessageSize
              /\ total' \div fractionForScaling > 2 * minMessageSize)
                => size' = 4 * minMessageSize ]_vars

C13_Witness ==
    /\ InUpload
    /\ iters = 25
    /\ size = 4 * minMessageSize
    /\ total \div fractionForScaling > 2 * minMessageSize

\* The sizes minMessageSize * 2^k for k from 0 to 10.
ScaledSteps == { s \in Steps : s <= maxScaledMessageSize }

\* C20: in uploadTest's loop the size is always one of 1024 * 2^k with
\* 0 <= k <= 10, so never above maxScaledMessageSize, and a write made at
\* maxScaledMessageSize leaves it there, whatever total has become.
C20_SizeCappedAtMaxScaled ==
    [][ /\ InUpload' => size' \in ScaledSteps
        /\ (Wrote /\ size = maxScaledMessageSize) => size' = maxScaledMessageSize ]_vars

C20_Witness ==
    /\ InUpload
    /\ iters = MaxUploadWrites
    /\ size = maxScaledMessageSize
    /\ total \div fractionForScaling > maxScaledMessageSize

====
